---- MODULE Spec2Model ----
(***************************************************************************)
(* Model of src/read_db.py: a flat script that opens todos.db, reads the   *)
(* column names and all rows of table todos, reshapes the rows into        *)
(* dictionaries and dumps the result as JSON to todos_data.json.           *)
(*                                                                         *)
(* One action per statement of the script.  An uncaught exception ends     *)
(* the script at once (pc = "failed"): the script has no try/finally and   *)
(* no context manager around the connection.                               *)
(***************************************************************************)
EXTENDS Integers, Sequences, FiniteSets, TLC

VARIABLES
    pc,         \* the statement the script executes next, or "done" / "failed"
    dbFile,     \* what is at path todos.db
    dbFile0,    \* what was at path todos.db before the run
    schema,     \* declared columns of table todos (when the table exists)
    tableRows,  \* stored rows of table todos, in the order the engine yields them
    connOpen,   \* the sqlite3 connection conn is open
    queries,    \* the SQL statements handed to cursor.execute, in order
    columns,    \* script variable columns
    rows,       \* script variable rows
    result,     \* script variable result
    k,          \* number of rows the for loop of line 23 has consumed
    outFile,    \* what is at path todos_data.json
    outFile0,   \* what was at path todos_data.json before the run
    opens,      \* number of calls of open('todos_data.json', 'w')
    printed,    \* number of times the confirmation line was printed
    err         \* the uncaught exception, if any

vars == <<pc, dbFile, dbFile0, schema, tableRows, connOpen, queries, columns,
          rows, result, k, outFile, outFile0, opens, printed, err>>

(***************************************************************************)
(* Bounds of the explored inputs.                                          *)
(***************************************************************************)
MaxCols == 2
MaxRows == 2

ColNames == <<"id", "title", "done", "extra">>

\* The kinds of cell the script can meet: a number or text (integer, real and
\* text cells are all handed through and all serializable), NULL, and a
\* BLOB, which Python reads as bytes.
Values == { [tag |-> "integer", v |-> 1],
            [tag |-> "null",    v |-> 0],
            [tag |-> "blob",    v |-> 1] }

\* The cell of a generated column: the value of its expression, here the
\* same in every row.
GenValue == [tag |-> "integer", v |-> 2]

TableName == "todos"

\* Declared columns: names in declaration order, each either an ordinary
\* column or a generated one (col AS (expr)); a table needs at least one
\* ordinary column.
Schemas ==
    UNION { { [i \in 1..c |-> [name |-> ColNames[i], generated |-> g[i]]]
                : g \in { f \in [1..c -> BOOLEAN] : \E i \in 1..c : ~f[i] } }
            : c \in 1..MaxCols }

\* SELECT * yields one cell per declared column, generated ones included.
CellsOf(sch) ==
    { r \in [1..Len(sch) -> Values \cup {GenValue}] :
        \A i \in 1..Len(sch) : sch[i].generated <=> (r[i] = GenValue) }

RowsOf(sch) ==
    UNION { [1..n -> CellsOf(sch)] : n \in 0..MaxRows }

Absent == [exists |-> FALSE, text |-> <<>>]
OldFile == [exists |-> TRUE, text |-> <<[tk |-> "old", p |-> 0]>>]

NoError == [step |-> "none", kind |-> "none"]
Unbound == [table |-> "", columns |-> <<>>, row_count |-> 0, data |-> <<>>]

Terminal == {"done", "failed"}


(***************************************************************************)
(* The sqlite3 library calls the script makes.                             *)
(***************************************************************************)

\* sqlite3.connect('todos.db'): opens read-write-create, so a missing file
\* is created as an empty database; a path that cannot be opened raises
\* OperationalError; the content of an existing file is not looked at yet.
SqliteConnect(db) ==
    CASE db = "unreadable" -> [ok |-> FALSE, kind |-> "OperationalError", db |-> db]
      [] db = "absent"     -> [ok |-> TRUE,  kind |-> "none", db |-> "noTable"]
      [] OTHER             -> [ok |-> TRUE,  kind |-> "none", db |-> db]

RECURSIVE Descriptors(_, _)
\* The descriptor rows (cid, name, type) of the ordinary columns among the
\* first n declared ones: table_info leaves generated columns out.
Descriptors(sch, n) ==
    IF n = 0 THEN <<>>
    ELSE IF sch[n].generated THEN Descriptors(sch, n - 1)
         ELSE Append(Descriptors(sch, n - 1), <<n - 1, sch[n].name, "ANY">>)

TableInfoStrict(db, sch) ==
    CASE db = "garbage"  -> [ok |-> FALSE, kind |-> "DatabaseError", rows |-> <<>>]
      [] db = "hasTable" -> [ok |-> TRUE, kind |-> "none", rows |-> Descriptors(sch, Len(sch))]
      [] OTHER           -> [ok |-> FALSE, kind |-> "OperationalError", rows |-> <<>>]

\* cursor.execute('PRAGMA table_info(todos)'); cursor.fetchall(): a file that
\* is no database raises DatabaseError; a missing table is no error, the
\* pragma yields no rows.
TableInfo(db, sch) ==
    CASE db = "garbage"  -> [ok |-> FALSE, kind |-> "DatabaseError", rows |-> <<>>]
      [] db = "hasTable" -> [ok |-> TRUE, kind |-> "none", rows |-> Descriptors(sch, Len(sch))]
      [] OTHER           -> [ok |-> TRUE, kind |-> "none", rows |-> <<>>]

ColumnNamesOffByOne(descs) == [i \in 1..Len(descs) |-> descs[i][3]]

\* [row[1] for row in cursor.fetchall()] (Python index 1 is the second field)
ColumnNames(descs) == [i \in 1..Len(descs) |-> descs[i][2]]

\* cursor.execute('SELECT * FROM todos'); cursor.fetchall(): a missing table
\* raises OperationalError (no such table); a storage fault raises
\* DatabaseError; otherwise every stored row, every declared column.
SelectAll(db, stored, fault) ==
    CASE db # "hasTable" -> [ok |-> FALSE, kind |-> "OperationalError", rows |-> <<>>]
      [] fault           -> [ok |-> FALSE, kind |-> "DatabaseError", rows |-> <<>>]
      [] OTHER           -> [ok |-> TRUE, kind |-> "none", rows |-> stored]

(***************************************************************************)
(* Python dictionaries: insertion-ordered sequences of key/value entries.  *)
(***************************************************************************)
DictKeys(d) == { d[j].key : j \in 1..Len(d) }

DictGet(d, key) == d[CHOOSE j \in 1..Len(d) : d[j].key = key].val

\* d[key] = val: replaces the value of a key already present (keeping its
\* position), appends a new entry otherwise.
DictSet(d, key, val) ==
    IF key \in DictKeys(d)
    THEN [j \in 1..Len(d) |-> IF d[j].key = key THEN [key |-> key, val |-> val] ELSE d[j]]
    ELSE Append(d, [key |-> key, val |-> val])

(***************************************************************************)
(* Lines 16-27: the result literal and the reshaping loop.                 *)
(***************************************************************************)
ResultLiteralColumnCount(cols, rws) ==
    [table |-> TableName, columns |-> cols, row_count |-> Len(cols), data |-> <<>>]

\* result = {"table": "todos", "columns": columns, "row_count": len(rows), "data": []}
ResultLiteral(cols, rws) ==
    [table |-> TableName, columns |-> cols, row_count |-> Len(rws), data |-> <<>>]

RECURSIVE MakeItemSkipNull(_, _, _)
MakeItemSkipNull(cols, row, n) ==
    IF n = 0 THEN <<>>
    ELSE IF row[n].tag = "null" THEN MakeItemSkipNull(cols, row, n - 1)
         ELSE DictSet(MakeItemSkipNull(cols, row, n - 1), cols[n], row[n])

RECURSIVE MakeItem(_, _, _)
\* item = {}; for i, col in enumerate(columns): item[col] = row[i]
\* (the first n columns done)
MakeItem(cols, row, n) ==
    IF n = 0 THEN <<>>
    ELSE DictSet(MakeItem(cols, row, n - 1), cols[n], row[n])

PrependItem(data, item) == <<item>> \o data

\* result["data"].append(item)
AppendItem(data, item) == Append(data, item)

(***************************************************************************)
(* json.dump(result, f, indent=2, ensure_ascii=False): the encoder yields  *)
(* the document piece by piece and each piece is written to f as it comes. *)
(***************************************************************************)
Tok(kd, p) == [tk |-> kd, p |-> p]

RECURSIVE ItemToks(_, _)
ItemToks(item, n) ==
    IF n = 0 THEN <<Tok("{", 0)>>
    ELSE ItemToks(item, n - 1) \o <<Tok("key", item[n].key), Tok("val", item[n].val)>>

RECURSIVE DataToks(_, _)
DataToks(data, n) ==
    IF n = 0 THEN <<>>
    ELSE DataToks(data, n - 1) \o ItemToks(data[n], Len(data[n])) \o <<Tok("}", 0)>>

\* Keys in insertion order: table, columns, row_count, data.
Serialize(doc) ==
    <<Tok("table", doc.table), Tok("columns", doc.columns),
      Tok("row_count", doc.row_count), Tok("data[", 0)>>
    \o DataToks(doc.data, Len(doc.data)) \o <<Tok("]", 0)>>

IsBlobTok(t) == t.tk = "val" /\ t.p.tag = "blob"

\* Position of the first piece the encoder cannot produce (bytes are not
\* JSON serializable: TypeError), or 0 when every piece can be produced.
FirstBlob(toks) ==
    IF \E j \in 1..Len(toks) : IsBlobTok(toks[j])
    THEN CHOOSE j \in 1..Len(toks) :
            IsBlobTok(toks[j]) /\ \A h \in 1..(j - 1) : ~IsBlobTok(toks[h])
    ELSE 0

(***************************************************************************)
(* The run.                                                                *)
(***************************************************************************)
Init ==
    /\ pc = "connect"
    /\ dbFile \in {"absent", "unreadable", "garbage", "noTable", "hasTable"}
    /\ dbFile0 = dbFile
    /\ IF dbFile = "hasTable"
       THEN /\ schema \in Schemas
            /\ tableRows \in RowsOf(schema)
       ELSE /\ schema = <<>>
            /\ tableRows = <<>>
    /\ connOpen = FALSE
    /\ queries = <<>>
    /\ columns = <<>>
    /\ rows = <<>>
    /\ result = Unbound
    /\ k = 0
    /\ outFile \in {Absent, OldFile}
    /\ outFile0 = outFile
    /\ opens = 0
    /\ printed = 0
    /\ err = NoError

\* An exception nothing catches: the script stops where it is.
Raise(step, kind) ==
    /\ pc' = "failed"
    /\ err' = [step |-> step, kind |-> kind]

\* Lines 4-5: conn = sqlite3.connect('todos.db'); cursor = conn.cursor()
Connect ==
    /\ pc = "connect"
    /\ LET r == SqliteConnect(dbFile) IN
         IF r.ok
         THEN /\ connOpen' = TRUE
              /\ dbFile' = r.db
              /\ pc' = "pragma"
              /\ UNCHANGED err
         ELSE /\ Raise("connect", r.kind)
              /\ UNCHANGED <<connOpen, dbFile>>
    /\ UNCHANGED <<dbFile0, schema, tableRows, queries, columns, rows, result,
                   k, outFile, outFile0, opens, printed>>

\* Lines 8-9: the pragma and the list comprehension over its rows.
ReadColumns ==
    /\ pc = "pragma"
    /\ queries' = Append(queries, "PRAGMA table_info")
    /\ LET r == TableInfo(dbFile, schema) IN
         IF r.ok
         THEN /\ columns' = ColumnNames(r.rows)
              /\ pc' = "select"
              /\ UNCHANGED err
         ELSE /\ Raise("pragma", r.kind)
              /\ UNCHANGED columns
    /\ UNCHANGED <<dbFile, dbFile0, schema, tableRows, connOpen, rows, result,
                   k, outFile, outFile0, opens, printed>>

ReadRowsSwallow ==
    /\ pc = "select"
    /\ queries' = Append(queries, "SELECT *")
    /\ \E fault \in BOOLEAN :
         LET r == SelectAll(dbFile, tableRows, fault) IN
           /\ rows' = r.rows
           /\ pc' = "build"
           /\ err' = IF r.ok THEN err ELSE [step |-> "select", kind |-> r.kind]
    /\ UNCHANGED <<dbFile, dbFile0, schema, tableRows, connOpen, columns,
                   result, k, outFile, outFile0, opens, printed>>

\* Lines 12-13: the row query and fetchall.
ReadRows ==
    /\ pc = "select"
    /\ queries' = Append(queries, "SELECT *")
    /\ \E fault \in BOOLEAN :
         LET r == SelectAll(dbFile, tableRows, fault) IN
           IF r.ok
           THEN /\ rows' = r.rows
                /\ pc' = "build"
                /\ UNCHANGED err
           ELSE /\ Raise("select", r.kind)
                /\ UNCHANGED rows
    /\ UNCHANGED <<dbFile, dbFile0, schema, tableRows, connOpen, columns,
                   result, k, outFile, outFile0, opens, printed>>

\* Lines 16-21: the result literal.
BuildResult ==
    /\ pc = "build"
    /\ result' = ResultLiteral(columns, rows)
    /\ k' = 0
    /\ pc' = "loop"
    /\ UNCHANGED <<dbFile, dbFile0, schema, tableRows, connOpen, queries,
                   columns, rows, outFile, outFile0, opens, printed, err>>

\* Lines 23-27: one iteration of for row in rows.
ForRow ==
    /\ pc = "loop"
    /\ k < Len(rows)
    /\ LET row == rows[k + 1]
           item == MakeItem(columns, row, Len(columns))
       IN  result' = [result EXCEPT !.data = AppendItem(@, item)]
    /\ k' = k + 1
    /\ UNCHANGED <<pc, dbFile, dbFile0, schema, tableRows, connOpen, queries,
                   columns, rows, outFile, outFile0, opens, printed, err>>

\* Line 29: open('todos_data.json', 'w', encoding='utf-8'), reached when the
\* loop is exhausted.  Mode 'w' creates the file or truncates it at once.
OpenOutput ==
    /\ pc = "loop"
    /\ k = Len(rows)
    /\ opens' = opens + 1
    /\ \E fault \in BOOLEAN :
         IF fault
         THEN /\ Raise("open", "OSError")
              /\ UNCHANGED outFile
         ELSE /\ outFile' = [exists |-> TRUE, text |-> <<>>]
              /\ pc' = "dump"
              /\ UNCHANGED err
    /\ UNCHANGED <<dbFile, dbFile0, schema, tableRows, connOpen, queries,
                   columns, rows, result, k, outFile0, printed>>

\* Line 30 and the exit of the with block: the pieces are written in order
\* until the encoder raises TypeError on a bytes value, or a write fails
\* (OSError), or all are written; the file is closed in every case, so what
\* was written stays in it.
Dump ==
    /\ pc = "dump"
    /\ LET toks == Serialize(result)
           b == FirstBlob(toks)
           last == IF b = 0 THEN Len(toks) ELSE b - 1
       IN  \/ /\ b = 0
              /\ outFile' = [exists |-> TRUE, text |-> toks]
              /\ pc' = "print"
              /\ UNCHANGED err
           \/ /\ b # 0
              /\ outFile' = [exists |-> TRUE, text |-> SubSeq(toks, 1, last)]
              /\ Raise("dump", "TypeError")
           \/ \E j \in 0..(last - 1) :
                /\ outFile' = [exists |-> TRUE, text |-> SubSeq(toks, 1, j)]
                /\ Raise("dump", "OSError")
    /\ UNCHANGED <<dbFile, dbFile0, schema, tableRows, connOpen, queries,
                   columns, rows, result, k, outFile0, opens, printed>>

\* Line 32: print("Data saved to todos_data.json")
PrintSaved ==
    /\ pc = "print"
    /\ printed' = printed + 1
    /\ pc' = "close"
    /\ UNCHANGED <<dbFile, dbFile0, schema, tableRows, connOpen, queries,
                   columns, rows, result, k, outFile, outFile0, opens, err>>

\* Line 33: conn.close()
Close ==
    /\ pc = "close"
    /\ connOpen' = FALSE
    /\ pc' = "done"
    /\ UNCHANGED <<dbFile, dbFile0, schema, tableRows, queries, columns, rows,
                   result, k, outFile, outFile0, opens, printed, err>>

Next ==
    \/ Connect
    \/ ReadColumns
    \/ ReadRows
    \/ BuildResult
    \/ ForRow
    \/ OpenOutput
    \/ Dump
    \/ PrintSaved
    \/ Close

Spec == Init /\ [][Next]_vars

(***************************************************************************)
(* Reading a written file back, to state properties of the document in    *)
(* the file rather than of the script's variables.                         *)
(***************************************************************************)
RECURSIVE ParseData(_, _, _, _)
ParseData(text, j, cur, acc) ==
    IF j > Len(text) THEN acc
    ELSE CASE text[j].tk = "{"   -> ParseData(text, j + 1, <<>>, acc)
           [] text[j].tk = "key" ->
                ParseData(text, j + 2,
                          Append(cur, [key |-> text[j].p, val |-> text[j + 1].p]), acc)
           [] text[j].tk = "}"   -> ParseData(text, j + 1, <<>>, Append(acc, cur))
           [] OTHER              -> ParseData(text, j + 1, cur, acc)

Parse(text) ==
    [table |-> text[1].p, columns |-> text[2].p, row_count |-> text[3].p,
     data |-> ParseData(text, 5, <<>>, <<>>)]

Complete(f) ==
    /\ f.exists
    /\ Len(f.text) >= 5
    /\ f.text[Len(f.text)].tk = "]"

\* The run has written the whole document.
Written == pc \in {"print", "close", "done"}

Doc == Parse(outFile.text)

Range(s) == { s[i] : i \in 1..Len(s) }

IsOrdinary(c) == ~c.generated

OrdinaryNames(sch) ==
    LET s == SelectSeq(sch, IsOrdinary) IN [i \in 1..Len(s) |-> s[i].name]

DeclaredNames(sch) == [i \in 1..Len(sch) |-> sch[i].name]

(***************************************************************************)
(* Claims.                                                                 *)
(***************************************************************************)

\* C1: on every exit path, successful or failed, the database connection
\* opened at the start has been closed when the run terminates.
C1_ConnectionClosedOnExit ==
    pc \in Terminal => ~connOpen

\* C2: when the database file does not exist at the start, the run fails at
\* the connect step, before any schema or row query is issued, and the
\* output file is not created.
C2_MissingDbFailsAtConnect ==
    dbFile0 = "absent" =>
        /\ queries = <<>>
        /\ pc \in Terminal => (pc = "failed" /\ err.step = "connect")
        /\ outFile = outFile0

C4_RowCountMatchesData ==
    Written =>
        /\ Complete(outFile)
        /\ Doc.row_count = Len(tableRows)
        /\ Len(Doc.data) = Len(tableRows)
        /\ Doc.row_count = Len(Doc.data)

C4_Witness ==
    /\ pc = "done"
    /\ Len(tableRows) = 2
    /\ Len(schema) = 1
    /\ Doc.row_count = 2

\* C5: every record in the data of a written document has exactly the
\* names of the document's columns list as its keys, none missing and none
\* extra.
C5_RecordKeysAreColumns ==
    Written =>
        \A n \in 1..Len(Doc.data) :
            /\ DictKeys(Doc.data[n]) = Range(Doc.columns)
            /\ Len(Doc.data[n]) = Len(Doc.columns)

C5_Witness ==
    /\ Written
    /\ Len(Doc.columns) = 2
    /\ \E n \in 1..Len(Doc.data) : \E j \in 1..Len(Doc.data[n]) :
          Doc.data[n][j].val.tag = "null"

C7_DatabasePathUntouched ==
    dbFile = dbFile0

\* C8: a failure aborts all remaining steps with no retry: after a failed
\* connect, schema read or row read the output file is never opened or
\* written; after any failure the confirmation is never printed; it is
\* printed at most once, only when the complete document is in the file,
\* and exactly once in a run that completes.
C8_FailureAbortsRun ==
    /\ err.step \in {"connect", "pragma", "select"} => (outFile = outFile0 /\ opens = 0)
    /\ err # NoError => (pc = "failed" /\ printed = 0)
    /\ pc = "failed" => err # NoError
    /\ printed <= 1
    /\ printed = 1 => /\ err = NoError
                      /\ Complete(outFile)
                      /\ outFile.text = Serialize(result)
                      /\ Doc = result
    /\ pc = "done" => printed = 1
    /\ opens <= 1
    /\ Len(queries) <= 2

C8_Witness ==
    /\ pc = "failed"
    /\ err.step = "select"
    /\ dbFile0 = "hasTable"
    /\ Len(tableRows) > 0
    /\ printed = 0

\* C9: if the serialize-and-write step fails partway, the output path holds
\* either the complete new document or exactly what it held before the run
\* (nothing, if it was absent), never a truncated document.
C9_NoPartialOutput ==
    (pc = "failed" /\ err.step = "dump") =>
        \/ outFile = outFile0
        \/ outFile = [exists |-> TRUE, text |-> Serialize(result)]

\* C10: the record at position n of data maps columns[i] to exactly the
\* i-th value of the n-th row the row query returned, unchanged, for every
\* n and i, and the records are in the order of the rows; the written
\* document carries the same records.
C10_RecordsMirrorRows ==
    /\ pc \in {"build", "loop", "dump", "print", "close", "done"} => rows = tableRows
    /\ (pc \in {"loop", "dump", "print", "close", "done"}
          \/ (pc = "failed" /\ err.step \in {"open", "dump"})) =>
          /\ Len(result.data) = k
          /\ pc # "loop" => k = Len(rows)
          /\ \A n \in 1..k : \A i \in 1..Len(columns) :
                DictGet(result.data[n], columns[i]) = rows[n][i]
    /\ Written =>
          /\ Len(Doc.data) = Len(rows)
          /\ \A n \in 1..Len(rows) : \A i \in 1..Len(Doc.columns) :
                DictGet(Doc.data[n], Doc.columns[i]) = rows[n][i]

C10_Witness ==
    /\ pc = "done"
    /\ Len(rows) = 2
    /\ Len(columns) = 2
    /\ rows[1] # rows[2]
    /\ rows[1][1] # rows[1][2]
    /\ rows[2][2].tag = "null"
    /\ DictGet(Doc.data[2], "title").tag = "null"

====
